---- MODULE Spec2Model ----
(***************************************************************************)
(* Pay-cycle budget tracker (budget_tracker.py).                           *)
(*                                                                         *)
(* The SQLite store is the record db = [cycles, transactions], each table  *)
(* a sequence of rows in insertion order.  Dates are day numbers: a date   *)
(* d stands for the calendar day d, date.isoformat followed by             *)
(* datetime.strptime(.., "%Y-%m-%d") yields midnight of the same day, and  *)
(* (datetime.now() - midnight(s)).days is floor(now - s) = d - s for any   *)
(* instant of day d, also when d < s.  Money is a Python float; the        *)
(* amounts used here are small integers (exact in a float) and NaN, the    *)
(* one float that the comparisons of the input loops let through.  The     *)
(* columns description and timestamp are written once and never read by    *)
(* any operation and are left out of the rows.                             *)
(***************************************************************************)
EXTENDS Integers, Sequences, FiniteSets, TLC

\* ------------------------------------------------------------ bounds
MaxDay      == 1    \* clock readings 0..MaxDay
MaxCycles   == 2    \* rows of the cycles table
MaxTx       == 3    \* rows of the transactions table
MaxAmount   == 2    \* largest income and expense entered
MaxRollover == 1    \* largest rollover passed to start_new_cycle

\* timedelta(days=30)
CycleDays == 30

VARIABLES
  db,      \* finance_tracker.db: [cycles |-> Seq(row), transactions |-> Seq(row)]
  today,   \* the wall clock, as a day number (date.today(), datetime.now())
  pc,      \* position of main(): "stopped", "ask_income", "menu", "ask_amount"
  cycle,   \* main()'s local `cycle`: <<>> for None, <<row>> for a row
  ret      \* what the most recent call returned (or how it ended)

vars == <<db, today, pc, cycle, ret>>

\* Clock readings the environment may produce: the first days, and a day
\* later than the end_date of any cycle started on one of them.
NearDays == 0 .. MaxDay
FarDay == CycleDays + MaxDay + 1
Days == NearDays \cup {FarDay}

\* ------------------------------------------------------------ floats
FNum(v) == [nan |-> FALSE, v |-> v]
FNaN == [nan |-> TRUE, v |-> 0]

\* float + float
FAdd(a, b) == IF a.nan \/ b.nan THEN FNaN ELSE FNum(a.v + b.v)

\* float < n and float <= n; every comparison with NaN is False
FLess(a, n) == ~a.nan /\ a.v < n
FLessEq(a, n) == ~a.nan /\ a.v <= n

\* A line typed at a prompt, by what float() makes of it.
InputLines ==
  {[kind |-> "garbage", val |-> 0], [kind |-> "nan", val |-> 0]}
    \cup {[kind |-> "numeral", val |-> n] : n \in (-1) .. MaxAmount}

\* float(input(..)): ValueError for text that is no float literal, NaN for
\* "nan", the number otherwise.
ParseFloat(line) ==
  CASE line.kind = "garbage" -> [ok |-> FALSE, f |-> FNaN]
    [] line.kind = "nan"     -> [ok |-> TRUE, f |-> FNaN]
    [] OTHER                 -> [ok |-> TRUE, f |-> FNum(line.val)]

\* A value bound to a REAL column: sqlite3 stores a NaN as NULL.
BindReal(f) == [null |-> f.nan, v |-> IF f.nan THEN 0 ELSE f.v]

\* ------------------------------------------------------------ the store
RECURSIVE MaxId(_)
MaxId(rows) ==
  IF rows = <<>> THEN 0
  ELSE LET m == MaxId(Tail(rows)) IN IF Head(rows).id > m THEN Head(rows).id ELSE m

\* INTEGER PRIMARY KEY AUTOINCREMENT: one more than the largest id ever used
\* (no row is ever deleted, so the largest id present).
NextRowId(rows) == MaxId(rows) + 1

InsertCycle(d, start, end, total) ==
  [d EXCEPT !.cycles = Append(@, [id |-> NextRowId(d.cycles),
                                  start_date |-> start,
                                  end_date |-> end,
                                  initial_income |-> BindReal(total)])]

InsertTransaction(d, cycle_id, t_type, category, amount) ==
  [d EXCEPT !.transactions = Append(@, [id |-> NextRowId(d.transactions),
                                        cycle_id |-> cycle_id,
                                        type |-> t_type,
                                        category |-> category,
                                        amount |-> BindReal(amount)])]

\* Faulty variant: every statement is committed as it runs.
TransactAutocommit(d, w, committed) == w

\* What the database file holds once a connection that found it as d and
\* worked it into w ends: w after conn.commit(), d if the process died
\* before the commit (the statements ran inside one implicit transaction).
Transact(d, w, committed) == IF committed THEN w ELSE d

\* Faulty variant: ORDER BY id ASC.
get_current_cycle_oldest(d) ==
  IF d.cycles = <<>> THEN <<>>
  ELSE <<CHOOSE r \in {d.cycles[i] : i \in DOMAIN d.cycles} :
           \A i \in DOMAIN d.cycles : d.cycles[i].id >= r.id>>

\* SELECT * FROM cycles ORDER BY id DESC LIMIT 1; None for an empty table
get_current_cycle(d) ==
  IF d.cycles = <<>> THEN <<>>
  ELSE <<CHOOSE r \in {d.cycles[i] : i \in DOMAIN d.cycles} :
           \A i \in DOMAIN d.cycles : d.cycles[i].id <= r.id>>

\* Faulty variant: the rollover is left out of the total.
start_new_cycle_no_rollover(d, clock1, clock2, income, rollover, executed) ==
  LET w1 == InsertCycle(d, clock1, clock2 + CycleDays, income)
      cycle_id == MaxId(w1.cycles)
      w2 == InsertTransaction(w1, cycle_id, "income", "Salary", income)
      w == CASE executed = 0 -> d [] executed = 1 -> w1 [] OTHER -> w2
  IN [db |-> Transact(d, w, executed = 3), cycle_id |-> cycle_id]

\* start_new_cycle(income, rollover), with the two readings of date.today()
\* and the number of statements (INSERT, INSERT, commit) that ran before the
\* process ended: 3 when the call returned.
start_new_cycle(d, clock1, clock2, income, rollover, executed) ==
  LET start == clock1
      end == clock2 + CycleDays
      total_income == FAdd(income, rollover)
      w1 == InsertCycle(d, start, end, total_income)
      cycle_id == MaxId(w1.cycles)
      w2 == InsertTransaction(w1, cycle_id, "income", "Salary", total_income)
      w == CASE executed = 0 -> d [] executed = 1 -> w1 [] OTHER -> w2
  IN [db |-> Transact(d, w, executed = 3), cycle_id |-> cycle_id]

\* Faulty variant: the newest row is replaced instead of a row being added.
add_transaction_overwrite(d, cycle_id, t_type, amount, category) ==
  LET n == Len(d.transactions)
      row == [id |-> n, cycle_id |-> cycle_id, type |-> t_type,
              category |-> category, amount |-> BindReal(amount)]
  IN [d EXCEPT !.transactions = [@ EXCEPT ![n] = row]]

\* add_transaction(cycle_id, t_type, amount, category, desc)
add_transaction(d, cycle_id, t_type, amount, category) ==
  LET w == InsertTransaction(d, cycle_id, t_type, category, amount)
  IN Transact(d, w, TRUE)

\* SELECT SUM(amount) FROM transactions WHERE cycle_id = ? AND type = ?
\* SUM skips NULLs and is NULL when no non-NULL row matches.
RECURSIVE SumAmount(_, _, _)
SumAmount(rows, cycle_id, t_type) ==
  IF rows = <<>> THEN [null |-> TRUE, v |-> 0]
  ELSE LET r == Head(rows)
           s == SumAmount(Tail(rows), cycle_id, t_type)
       IN IF r.cycle_id = cycle_id /\ r.type = t_type /\ ~r.amount.null
          THEN [null |-> FALSE, v |-> r.amount.v + s.v]
          ELSE s

\* cursor.fetchone()[0] or 0
OrZero(x) == IF x.null THEN 0 ELSE x.v

\* A quotient n/d, d /= 0, kept as a fraction with a positive denominator.
Rat(n, d) == IF d < 0 THEN [num |-> -n, den |-> -d] ELSE [num |-> n, den |-> d]

CycleRow(d, cycle_id) ==
  CHOOSE r \in {d.cycles[i] : i \in DOMAIN d.cycles} : r.id = cycle_id

\* Faulty variant: the runway is raised to 0 when the balance is not positive.
calculate_burn_rate_clamped(d, cycle_id, now) ==
  LET days_passed == (now - CycleRow(d, cycle_id).start_date) + 1
      total_spent == OrZero(SumAmount(d.transactions, cycle_id, "expense"))
      total_income == OrZero(SumAmount(d.transactions, cycle_id, "income"))
      balance == total_income - total_spent
  IN IF days_passed = 0
     THEN [op |-> "calculate_burn_rate", fault |-> TRUE, cycle_id |-> cycle_id,
           days_passed |-> days_passed]
     ELSE LET daily_rate == Rat(total_spent, days_passed)
              runway == IF daily_rate.num > 0 /\ balance > 0
                        THEN Rat(balance * daily_rate.den, daily_rate.num)
                        ELSE Rat(0, 1)
          IN [op |-> "calculate_burn_rate", fault |-> FALSE, cycle_id |-> cycle_id,
              days_passed |-> days_passed, balance |-> balance,
              daily_rate |-> daily_rate, runway |-> runway]

\* calculate_burn_rate(cycle_id), with the reading of datetime.now(); the
\* result also records days_passed, and fault when the division raises.
calculate_burn_rate(d, cycle_id, now) ==
  LET days_passed == (now - CycleRow(d, cycle_id).start_date) + 1
      total_spent == OrZero(SumAmount(d.transactions, cycle_id, "expense"))
      total_income == OrZero(SumAmount(d.transactions, cycle_id, "income"))
      balance == total_income - total_spent
  IN IF days_passed = 0
     THEN \* total_spent / days_passed raises ZeroDivisionError
          [op |-> "calculate_burn_rate", fault |-> TRUE, cycle_id |-> cycle_id,
           days_passed |-> days_passed]
     ELSE LET daily_rate == Rat(total_spent, days_passed)
              runway == IF daily_rate.num > 0
                        THEN Rat(balance * daily_rate.den, daily_rate.num)
                        ELSE Rat(0, 1)
          IN [op |-> "calculate_burn_rate", fault |-> FALSE, cycle_id |-> cycle_id,
              days_passed |-> days_passed, balance |-> balance,
              daily_rate |-> daily_rate, runway |-> runway]

\* ------------------------------------------------------------ initial state
EmptyDb == [cycles |-> <<>>, transactions |-> <<>>]

Init ==
  /\ db = EmptyDb
  /\ today \in NearDays
  /\ pc = "stopped"
  /\ cycle = <<>>
  /\ ret = [op |-> "none"]

CycleIds == {db.cycles[i].id : i \in DOMAIN db.cycles}

\* What a call of start_new_cycle leaves in ret.
StartResult(r, income, rollover, executed) ==
  IF executed = 3
  THEN [op |-> "start_new_cycle", crashed |-> FALSE, cycle_id |-> r.cycle_id,
        income |-> income, rollover |-> rollover]
  ELSE [op |-> "start_new_cycle", crashed |-> TRUE, executed |-> executed]

\* ------------------------------------------------------------ the functions, called directly
\* A day passes between two calls.
Tick ==
  /\ today < MaxDay
  /\ today' = today + 1
  /\ UNCHANGED <<db, pc, cycle, ret>>

\* tick: whether midnight passes between the two readings of date.today()
StartNewCycle ==
  \E income \in 0 .. MaxAmount, rollover \in 0 .. MaxRollover,
     tick \in {0, 1}, executed \in 0 .. 3 :
    /\ Len(db.cycles) < MaxCycles
    /\ Len(db.transactions) < MaxTx
    /\ today + tick \in NearDays
    /\ LET r == start_new_cycle(db, today, today + tick, FNum(income),
                                FNum(rollover), executed)
       IN /\ db' = r.db
          /\ ret' = StartResult(r, FNum(income), FNum(rollover), executed)
    /\ today' = today + tick
    /\ UNCHANGED <<pc, cycle>>

AddTransaction ==
  \E cycle_id \in CycleIds, amount \in 1 .. MaxAmount :
    /\ Len(db.transactions) < MaxTx
    /\ db' = add_transaction(db, cycle_id, "expense", FNum(amount), "Food")
    /\ ret' = [op |-> "add_transaction", cycle_id |-> cycle_id]
    /\ UNCHANGED <<today, pc, cycle>>

Next == Tick \/ StartNewCycle \/ AddTransaction

Spec == Init /\ [][Next]_vars

\* ------------------------------------------------------------ main()
\* The wall clock is read, never set, by the program: while main() runs or
\* is stopped it may come to show any other day (time passes, or the clock
\* is adjusted).
ClockSet ==
  /\ \E d \in Days \ {today} : today' = d
  /\ UNCHANGED <<db, pc, cycle, ret>>

\* init_db(); cycle = get_current_cycle(); if not cycle: ...
Main_Start ==
  /\ pc = "stopped"
  /\ cycle' = get_current_cycle(db)
  /\ pc' = IF cycle' = <<>> THEN "ask_income" ELSE "menu"
  /\ ret' = [op |-> "none"]
  /\ UNCHANGED <<db, today>>

\* One pass of the loop that asks for the starting income; once a line is
\* accepted, start_new_cycle(inc) and cycle = get_current_cycle().
Main_EnterIncome ==
  \E line \in InputLines, tick \in {0, 1}, executed \in 0 .. 3 :
    /\ pc = "ask_income"
    /\ LET p == ParseFloat(line)
       IN IF ~p.ok \/ FLess(p.f, 0)
          THEN UNCHANGED vars
          ELSE /\ today + tick \in Days
               /\ LET r == start_new_cycle(db, today, today + tick, p.f,
                                           FNum(0), executed)
                  IN /\ db' = r.db
                     /\ ret' = StartResult(r, p.f, FNum(0), executed)
                     /\ cycle' = IF executed = 3 THEN get_current_cycle(r.db) ELSE <<>>
               /\ today' = today + tick
               /\ pc' = IF executed = 3 THEN "menu" ELSE "stopped"

\* choice == '1'
Main_ChooseAddExpense ==
  /\ pc = "menu"
  /\ pc' = "ask_amount"
  /\ UNCHANGED <<db, today, cycle, ret>>

\* input().strip().title(), "Misc" when empty
Category(text) == IF text = "" THEN "Misc" ELSE "Food"

\* One pass of the loop that asks for the amount; once a line is accepted,
\* the category is read and add_transaction(cycle[0], 'expense', ..) called.
Main_EnterAmount ==
  \E line \in InputLines, cat \in {"", "food"} :
    /\ pc = "ask_amount"
    /\ LET p == ParseFloat(line)
       IN IF ~p.ok \/ FLessEq(p.f, 0)
          THEN UNCHANGED vars
          ELSE /\ Len(db.transactions) < MaxTx
               /\ db' = add_transaction(db, Head(cycle).id, "expense", p.f, Category(cat))
               /\ ret' = [op |-> "add_transaction", cycle_id |-> Head(cycle).id]
               /\ pc' = "menu"
               /\ UNCHANGED <<today, cycle>>

\* choice == '2'; an exception that escapes calculate_burn_rate ends main()
Main_ViewBurnRate ==
  /\ pc = "menu"
  /\ ret' = calculate_burn_rate(db, Head(cycle).id, today)
  /\ pc' = IF ret'.fault THEN "stopped" ELSE "menu"
  /\ cycle' = IF ret'.fault THEN <<>> ELSE cycle
  /\ UNCHANGED <<db, today>>

\* choice == '4'
Main_Exit ==
  /\ pc = "menu"
  /\ pc' = "stopped"
  /\ cycle' = <<>>
  /\ UNCHANGED <<db, today, ret>>

MainNext ==
  \/ ClockSet
  \/ Main_Start
  \/ Main_EnterIncome
  \/ Main_ChooseAddExpense
  \/ Main_EnterAmount
  \/ Main_ViewBurnRate
  \/ Main_Exit

MainSpec == Init /\ [][MainNext]_vars

\* ------------------------------------------------------------ properties
IsPrefix(s, t) == Len(s) <= Len(t) /\ SubSeq(t, 1, Len(s)) = s

\* The transactions of one cycle, in insertion order.
TransactionsOf(d, cycle_id) ==
  SelectSeq(d.transactions, LAMBDA t : t.cycle_id = cycle_id)

\* Sum of the stored amounts of one kind in one cycle's ledger, taken row by
\* row from the last row back (a row without a stored amount adds nothing).
RECURSIVE LedgerTotal(_, _, _, _)
LedgerTotal(d, cycle_id, kind, n) ==
  IF n = 0 THEN 0
  ELSE LET t == d.transactions[n]
       IN LedgerTotal(d, cycle_id, kind, n - 1)
            + (IF t.cycle_id = cycle_id /\ t.type = kind /\ ~t.amount.null
               THEN t.amount.v ELSE 0)

TotalByKind(d, cycle_id, kind) == LedgerTotal(d, cycle_id, kind, Len(d.transactions))

\* The runway that stands for "never runs out": no quotient n/d with d /= 0.
Infinite == [num |-> 1, den |-> 0]

Returned == ret.op = "start_new_cycle" /\ ~ret.crashed
Forecast == ret.op = "calculate_burn_rate" /\ ~ret.fault

\* C1: when start_new_cycle(income, rollover) has returned, for income >= 0
\* and rollover >= 0, the cycle it created has initial_income = income +
\* rollover, and that cycle's transactions are exactly one income transaction
\* of that amount.
C1_StartSeedsCycle ==
  (Returned /\ ~ret.income.nan /\ ret.income.v >= 0
            /\ ~ret.rollover.nan /\ ret.rollover.v >= 0) =>
    LET c == CycleRow(db, ret.cycle_id)
        txs == TransactionsOf(db, ret.cycle_id)
    IN /\ c.initial_income = [null |-> FALSE, v |-> ret.income.v + ret.rollover.v]
       /\ Len(txs) = 1
       /\ txs[1].type = "income"
       /\ txs[1].amount = c.initial_income

C1_Witness ==
  /\ Returned
  /\ ret.income.v > 0
  /\ ret.rollover.v > 0
  /\ Len(db.cycles) = 2

\* C2: when main() starts and loads a current cycle, that cycle is not one
\* whose end_date is before today (an expired cycle has been superseded).
C2_NoExpiredCycleAfterStart ==
  [][(pc = "stopped" /\ pc' = "menu") => today' <= Head(cycle').end_date]_vars

\* C3: when the total expense of the cycle is 0 and its balance is positive,
\* the runway calculate_burn_rate returns is Infinite, which no numeric
\* runway equals.
C3_RunwayInfinite ==
  (Forecast /\ TotalByKind(db, ret.cycle_id, "expense") = 0 /\ ret.balance > 0) =>
    ret.runway = Infinite

\* C4: every stored cycle has end_date = start_date + 30 days.
C4_EndIsStartPlus30 ==
  \A i \in DOMAIN db.cycles :
    db.cycles[i].end_date = db.cycles[i].start_date + CycleDays

\* C5: the day count calculate_burn_rate divides by is at least 1, whatever
\* the clock showed.
C5_DaysPassedAtLeastOne ==
  ret.op = "calculate_burn_rate" => ret.days_passed >= 1

\* C6: every expense transaction the shell has stored has an amount, and it
\* is greater than 0 (a line that is no positive number is rejected).
C6_StoredExpensesPositive ==
  \A i \in DOMAIN db.transactions :
    db.transactions[i].type = "expense" =>
      ~db.transactions[i].amount.null /\ db.transactions[i].amount.v > 0

\* A step in which add_transaction ran: the only step that both changes the
\* store and leaves an add_transaction result in ret.
AddReturns == db' /= db /\ ret'.op = "add_transaction"

\* C7: add_transaction appends exactly one transaction and changes nothing
\* else in the store; and no step at all removes or changes a stored
\* transaction or cycle.
C7_AppendOnly ==
  [][/\ IsPrefix(db.transactions, db'.transactions)
     /\ IsPrefix(db.cycles, db'.cycles)
     /\ AddReturns =>
          /\ Len(db'.transactions) = Len(db.transactions) + 1
          /\ db'.cycles = db.cycles]_vars

C7_Witness ==
  /\ ret.op = "add_transaction"
  /\ ret.cycle_id = 1
  /\ Len(db.cycles) = 2
  /\ Len(db.transactions) = 3

\* A step in which start_new_cycle ran and returned: the only step that both
\* changes the store and leaves a start_new_cycle result in ret.
StartReturns == db' /= db /\ ret'.op = "start_new_cycle" /\ ~ret'.crashed

\* C8: a returning call of start_new_cycle leaves the cycle whose id it
\* returns as the one get_current_cycle yields, and leaves every cycle and
\* transaction stored before it as it was.
C8_NewestIsCurrent ==
  [][StartReturns =>
       /\ get_current_cycle(db') = <<CycleRow(db', ret'.cycle_id)>>
       /\ IsPrefix(db.cycles, db'.cycles)
       /\ IsPrefix(db.transactions, db'.transactions)]_vars

C8_Witness ==
  /\ Returned
  /\ ret.cycle_id = 2
  /\ Len(db.cycles) = 2

C10_CycleCreationAtomic ==
  /\ \A i \in DOMAIN db.cycles :
       LET txs == TransactionsOf(db, db.cycles[i].id)
       IN /\ txs /= <<>>
          /\ txs[1].type = "income"
          /\ txs[1].amount = db.cycles[i].initial_income
  /\ \A j \in DOMAIN db.transactions :
       \E i \in DOMAIN db.cycles : db.cycles[i].id = db.transactions[j].cycle_id

C10_Witness ==
  /\ ret.op = "start_new_cycle"
  /\ ret.crashed
  /\ ret.executed = 1
  /\ Len(db.cycles) = 1

====
